---- MODULE Spec2Model ----
(***************************************************************************)
(* KafkaSource status lifecycle (condition aggregation over the            *)
(* KafkaSourceCondSet living condition set) and the ConsumerGroup          *)
(* ownership filter / enqueue helpers.                                     *)
(***************************************************************************)
EXTENDS Integers, Sequences, FiniteSets, TLC

\* ------------------------------------------------------------------------
\* Bounds of the model
\* ------------------------------------------------------------------------

\* number of operations one reconciliation pass applies to the status
MaxOps == 2

\* length of a deployment's status condition list
MaxDeployConds == 2

\* number of owner references of an object
MaxOwners == 2

\* ------------------------------------------------------------------------
\* Condition types
\* ------------------------------------------------------------------------

KafkaConditionReady == "Ready"

KafkaConditionSinkProvided == "SinkProvided"

KafkaConditionDeployed == "Deployed"

KafkaConditionKeyType == "KeyTypeCorrect"

KafkaConditionConnectionEstablished == "ConnectionEstablished"

KafkaConditionInitialOffsetsCommitted == "InitialOffsetsCommitted"

KafkaConditionOIDCIdentityCreated == "OIDCIdentityCreated"

ConditionTypes ==
    { KafkaConditionReady, KafkaConditionSinkProvided, KafkaConditionDeployed,
      KafkaConditionKeyType, KafkaConditionConnectionEstablished,
      KafkaConditionInitialOffsetsCommitted, KafkaConditionOIDCIdentityCreated }

ConditionTrue == "True"

ConditionFalse == "False"

ConditionUnknown == "Unknown"

\* the status held by a condition that is not in the status (GetCondition = nil)
ConditionAbsent == "Absent"

\* a nil pointer (URL, CACerts, Audience)
Nil == "nil"

\* ------------------------------------------------------------------------
\* Strings that are formatted: a string is the sequence of its pieces
\* ------------------------------------------------------------------------

RECURSIVE Sprintf(_, _)
\* fmt.Sprintf(format, args...) for formats whose only verb is %s: each "%s"
\* piece is replaced by the next argument, an empty piece adds nothing
Sprintf(format, args) ==
    IF format = <<>> THEN <<>>
    ELSE IF Head(format) = "%s"
         THEN (IF Head(args) = "" THEN <<>> ELSE <<Head(args)>>)
                  \o Sprintf(Tail(format), Tail(args))
         ELSE <<Head(format)>> \o Sprintf(Tail(format), args)

\* ------------------------------------------------------------------------
\* apis.ConditionSet and its manager
\* ------------------------------------------------------------------------

Range(seq) == { seq[i] : i \in DOMAIN seq }

\* apis.NewLivingConditionSet(d...): the aggregate is Ready
NewLivingConditionSet(d) == [happy |-> KafkaConditionReady, dependents |-> d]

NoCondition ==
    [status |-> ConditionAbsent, severity |-> "", reason |-> "",
     message |-> <<>>, lastTransitionTime |-> 0]

\* dependents and the aggregate have severity Error, any other type Info
Severity(cs, t) ==
    IF t = cs.happy \/ t \in Range(cs.dependents) THEN "Error" ELSE "Info"

\* write one condition; lastTransitionTime moves only when the status changes.
\* Time is kept per condition: a transition happens dt after the condition's
\* previous one, so every transition gets a time no earlier transition of
\* the condition had (an absent condition has time 0).
SetCondition(cs, conds, t, status, reason, message, dt) ==
    [conds EXCEPT ![t] =
        [status |-> status, severity |-> Severity(cs, t), reason |-> reason,
         message |-> message,
         lastTransitionTime |->
            IF conds[t].status = status THEN conds[t].lastTransitionTime
            ELSE conds[t].lastTransitionTime + dt]]

\* index of the first dependent, in declaration order, whose status is in S;
\* 0 when there is none
FirstDependentIn(cs, conds, S) ==
    LET hits == { i \in DOMAIN cs.dependents : conds[cs.dependents[i]].status \in S }
    IN IF hits = {} THEN 0
       ELSE CHOOSE i \in hits : \A j \in hits : i <= j

\* the aggregate computation run after every mutating call
RecomputeAggregate(cs, conds, dt) ==
    LET u == FirstDependentIn(cs, conds, {ConditionAbsent, ConditionUnknown})
        f == FirstDependentIn(cs, conds, {ConditionFalse})
    IN IF u # 0
       THEN SetCondition(cs, conds, cs.happy, ConditionUnknown,
                         conds[cs.dependents[u]].reason,
                         conds[cs.dependents[u]].message, dt)
       ELSE IF f # 0
       THEN SetCondition(cs, conds, cs.happy, ConditionFalse,
                         conds[cs.dependents[f]].reason,
                         conds[cs.dependents[f]].message, dt)
       ELSE SetCondition(cs, conds, cs.happy, ConditionTrue, "", <<>>, dt)

ManagerMarkTrue(cs, conds, t, dt) ==
    RecomputeAggregate(cs,
        SetCondition(cs, conds, t, ConditionTrue, "", <<>>, dt), dt)

ManagerMarkTrueWithReason(cs, conds, t, reason, format, args, dt) ==
    RecomputeAggregate(cs,
        SetCondition(cs, conds, t, ConditionTrue, reason,
                     Sprintf(format, args), dt), dt)

ManagerMarkFalse(cs, conds, t, reason, format, args, dt) ==
    RecomputeAggregate(cs,
        SetCondition(cs, conds, t, ConditionFalse, reason,
                     Sprintf(format, args), dt), dt)

ManagerMarkUnknown(cs, conds, t, reason, format, args, dt) ==
    RecomputeAggregate(cs,
        SetCondition(cs, conds, t, ConditionUnknown, reason,
                     Sprintf(format, args), dt), dt)

RECURSIVE InitializeFrom(_, _, _, _)
\* every declared dependent from index i on that is absent becomes Unknown
\* with empty reason and message
InitializeFrom(cs, conds, i, dt) ==
    IF i > Len(cs.dependents) THEN conds
    ELSE InitializeFrom(cs,
            IF conds[cs.dependents[i]].status = ConditionAbsent
            THEN SetCondition(cs, conds, cs.dependents[i], ConditionUnknown,
                              "", <<>>, dt)
            ELSE conds,
            i + 1, dt)

ManagerInitializeConditions(cs, conds, dt) ==
    RecomputeAggregate(cs, InitializeFrom(cs, conds, 1, dt), dt)

ManagerGetCondition(cs, conds, t) == conds[t]

ManagerIsHappy(cs, conds) == conds[cs.happy].status = ConditionTrue

\* ------------------------------------------------------------------------
\* kafka_lifecycle.go
\* ------------------------------------------------------------------------

\* the condition set without its last dependent
DefaultDependentsNoOIDC ==
    << KafkaConditionSinkProvided,
       KafkaConditionDeployed,
       KafkaConditionConnectionEstablished,
       KafkaConditionInitialOffsetsCommitted >>

\* the condition set without the Deployed dependent
DefaultDependentsNoDeployed ==
    << KafkaConditionSinkProvided,
       KafkaConditionConnectionEstablished,
       KafkaConditionInitialOffsetsCommitted,
       KafkaConditionOIDCIdentityCreated >>

\* the condition set with KeyTypeCorrect among the dependents
DefaultDependentsWithKeyType ==
    << KafkaConditionSinkProvided,
       KafkaConditionDeployed,
       KafkaConditionKeyType,
       KafkaConditionConnectionEstablished,
       KafkaConditionInitialOffsetsCommitted,
       KafkaConditionOIDCIdentityCreated >>

\* the condition set with its first two dependents declared in the other order
DefaultDependentsReordered ==
    << KafkaConditionDeployed,
       KafkaConditionSinkProvided,
       KafkaConditionConnectionEstablished,
       KafkaConditionInitialOffsetsCommitted,
       KafkaConditionOIDCIdentityCreated >>

\* the dependents of the package's condition set, in declaration order
DefaultDependents ==
    << KafkaConditionSinkProvided,
       KafkaConditionDeployed,
       KafkaConditionConnectionEstablished,
       KafkaConditionInitialOffsetsCommitted,
       KafkaConditionOIDCIdentityCreated >>

\* a zero KafkaSourceStatus
NewStatus ==
    [Conditions |-> [t \in ConditionTypes |-> NoCondition],
     SinkURI |-> Nil, SinkCACerts |-> Nil, SinkAudience |-> Nil,
     Consumers |-> 0, Claims |-> ""]

GetCondition(cs, s, t) == ManagerGetCondition(cs, s.Conditions, t)

IsReady(cs, s) == ManagerIsHappy(cs, s.Conditions)

\* InitializeConditions managing a zero status instead of s
InitializeConditionsFromZero(cs, s, dt) ==
    [s EXCEPT !.Conditions =
        ManagerInitializeConditions(cs, [t \in ConditionTypes |-> NoCondition], dt)]

InitializeConditions(cs, s, dt) ==
    [s EXCEPT !.Conditions = ManagerInitializeConditions(cs, s.Conditions, dt)]

\* url.URL.IsEmpty for a non-nil URL
URLIsEmpty(u) == u = ""

\* MarkSink with the emptiness test of the URL inverted
MarkSinkInvertedTest(cs, s, addr, dt) ==
    IF addr.URL # Nil /\ URLIsEmpty(addr.URL)
    THEN [s EXCEPT !.SinkURI = addr.URL,
                   !.SinkCACerts = addr.CACerts,
                   !.SinkAudience = addr.Audience,
                   !.Conditions = ManagerMarkTrue(cs, s.Conditions,
                                      KafkaConditionSinkProvided, dt)]
    ELSE [s EXCEPT !.Conditions =
             ManagerMarkUnknown(cs, s.Conditions, KafkaConditionSinkProvided,
                 "SinkEmpty", <<"Sink has resolved to empty.", "%s">>, <<"">>, dt)]

\* MarkSink marking an empty sink False
MarkSinkEmptyIsFalse(cs, s, addr, dt) ==
    IF addr.URL # Nil /\ ~URLIsEmpty(addr.URL)
    THEN [s EXCEPT !.SinkURI = addr.URL,
                   !.SinkCACerts = addr.CACerts,
                   !.SinkAudience = addr.Audience,
                   !.Conditions = ManagerMarkTrue(cs, s.Conditions,
                                      KafkaConditionSinkProvided, dt)]
    ELSE [s EXCEPT !.Conditions =
             ManagerMarkFalse(cs, s.Conditions, KafkaConditionSinkProvided,
                 "SinkEmpty", <<"Sink has resolved to empty.", "%s">>, <<"">>, dt)]

MarkSinkEmptyClearsAddress(cs, s, addr, dt) ==
    IF addr.URL # Nil /\ ~URLIsEmpty(addr.URL)
    THEN [s EXCEPT !.SinkURI = addr.URL,
                   !.SinkCACerts = addr.CACerts,
                   !.SinkAudience = addr.Audience,
                   !.Conditions = ManagerMarkTrue(cs, s.Conditions,
                                      KafkaConditionSinkProvided, dt)]
    ELSE [s EXCEPT !.SinkURI = Nil,
                   !.SinkCACerts = Nil,
                   !.SinkAudience = Nil,
                   !.Conditions =
             ManagerMarkUnknown(cs, s.Conditions, KafkaConditionSinkProvided,
                 "SinkEmpty", <<"Sink has resolved to empty.", "%s">>, <<"">>, dt)]

MarkSink(cs, s, addr, dt) ==
    IF addr.URL # Nil /\ ~URLIsEmpty(addr.URL)
    THEN [s EXCEPT !.SinkURI = addr.URL,
                   !.SinkCACerts = addr.CACerts,
                   !.SinkAudience = addr.Audience,
                   !.Conditions = ManagerMarkTrue(cs, s.Conditions,
                                      KafkaConditionSinkProvided, dt)]
    ELSE [s EXCEPT !.Conditions =
             ManagerMarkUnknown(cs, s.Conditions, KafkaConditionSinkProvided,
                 "SinkEmpty", <<"Sink has resolved to empty.", "%s">>, <<"">>, dt)]

MarkNoSink(cs, s, reason, format, args, dt) ==
    [s EXCEPT !.Conditions =
        ManagerMarkFalse(cs, s.Conditions, KafkaConditionSinkProvided,
                         reason, format, args, dt)]

DeploymentAvailable == "Available"

\* DeploymentIsAvailable looking for any Available condition that is "True"
DeploymentIsAvailableAnyEntry(d, def) ==
    IF \A i \in DOMAIN d.Conditions : d.Conditions[i].Type # DeploymentAvailable
    THEN def
    ELSE \E i \in DOMAIN d.Conditions :
            /\ d.Conditions[i].Type = DeploymentAvailable
            /\ d.Conditions[i].Status = "True"

RECURSIVE DeploymentIsAvailable(_, _)
\* d is a DeploymentStatus; the first condition of type Available decides
DeploymentIsAvailable(d, def) ==
    IF d.Conditions = <<>> THEN def
    ELSE IF Head(d.Conditions).Type = DeploymentAvailable
         THEN Head(d.Conditions).Status = "True"
         ELSE DeploymentIsAvailable(
                  [d EXCEPT !.Conditions = Tail(d.Conditions)], def)

\* duck.DeploymentIsAvailable of knative.dev/eventing: scan the status
\* conditions for the Available type, the default when there is none
DuckDeploymentIsAvailable(d, def) ==
    LET hits == { i \in DOMAIN d.Conditions :
                    d.Conditions[i].Type = DeploymentAvailable }
    IN IF hits = {} THEN def
       ELSE d.Conditions[CHOOSE i \in hits : \A j \in hits : i <= j].Status = "True"

MarkDeployedDefaultTrue(cs, s, d, dt) ==
    IF DuckDeploymentIsAvailable(d.Status, TRUE)
    THEN [s EXCEPT !.Conditions = ManagerMarkTrue(cs, s.Conditions,
                                      KafkaConditionDeployed, dt),
                   !.Consumers = d.Status.Replicas]
    ELSE [s EXCEPT !.Conditions =
             ManagerMarkFalse(cs, s.Conditions, KafkaConditionDeployed,
                 "DeploymentUnavailable",
                 <<"The Deployment '", "%s", "' is unavailable.">>,
                 <<d.Name>>, dt)]

MarkDeployed(cs, s, d, dt) ==
    IF DuckDeploymentIsAvailable(d.Status, FALSE)
    THEN [s EXCEPT !.Conditions = ManagerMarkTrue(cs, s.Conditions,
                                      KafkaConditionDeployed, dt),
                   !.Consumers = d.Status.Replicas]
    ELSE [s EXCEPT !.Conditions =
             ManagerMarkFalse(cs, s.Conditions, KafkaConditionDeployed,
                 "DeploymentUnavailable",
                 <<"The Deployment '", "%s", "' is unavailable.">>,
                 <<d.Name>>, dt)]

MarkDeployingAsFalse(cs, s, reason, format, args, dt) ==
    [s EXCEPT !.Conditions =
        ManagerMarkFalse(cs, s.Conditions, KafkaConditionDeployed,
                         reason, format, args, dt)]

MarkDeploying(cs, s, reason, format, args, dt) ==
    [s EXCEPT !.Conditions =
        ManagerMarkUnknown(cs, s.Conditions, KafkaConditionDeployed,
                           reason, format, args, dt)]

MarkNotDeployedClearsConsumers(cs, s, reason, format, args, dt) ==
    [s EXCEPT !.Conditions =
        ManagerMarkFalse(cs, s.Conditions, KafkaConditionDeployed,
                         reason, format, args, dt),
              !.Consumers = NewStatus.Consumers]

MarkNotDeployed(cs, s, reason, format, args, dt) ==
    [s EXCEPT !.Conditions =
        ManagerMarkFalse(cs, s.Conditions, KafkaConditionDeployed,
                         reason, format, args, dt)]

MarkKeyTypeCorrect(cs, s, dt) ==
    [s EXCEPT !.Conditions =
        ManagerMarkTrue(cs, s.Conditions, KafkaConditionKeyType, dt)]

MarkKeyTypeIncorrectOnDeployed(cs, s, reason, format, args, dt) ==
    [s EXCEPT !.Conditions =
        ManagerMarkFalse(cs, s.Conditions, KafkaConditionDeployed,
                         reason, format, args, dt)]

MarkKeyTypeIncorrect(cs, s, reason, format, args, dt) ==
    [s EXCEPT !.Conditions =
        ManagerMarkFalse(cs, s.Conditions, KafkaConditionKeyType,
                         reason, format, args, dt)]

MarkConnectionEstablished(cs, s, dt) ==
    [s EXCEPT !.Conditions =
        ManagerMarkTrue(cs, s.Conditions,
                        KafkaConditionConnectionEstablished, dt)]

\* MarkConnectionNotEstablished marking Unknown instead of False
MarkConnectionNotEstablishedAsUnknown(cs, s, reason, format, args, dt) ==
    [s EXCEPT !.Conditions =
        ManagerMarkUnknown(cs, s.Conditions,
                           KafkaConditionConnectionEstablished,
                           reason, format, args, dt)]

MarkConnectionNotEstablished(cs, s, reason, format, args, dt) ==
    [s EXCEPT !.Conditions =
        ManagerMarkFalse(cs, s.Conditions,
                         KafkaConditionConnectionEstablished,
                         reason, format, args, dt)]

MarkInitialOffsetCommitted(cs, s, dt) ==
    [s EXCEPT !.Conditions =
        ManagerMarkTrue(cs, s.Conditions,
                        KafkaConditionInitialOffsetsCommitted, dt)]

MarkInitialOffsetNotCommitted(cs, s, reason, format, args, dt) ==
    [s EXCEPT !.Conditions =
        ManagerMarkFalse(cs, s.Conditions,
                         KafkaConditionInitialOffsetsCommitted,
                         reason, format, args, dt)]

MarkOIDCIdentityCreatedSucceeded(cs, s, dt) ==
    [s EXCEPT !.Conditions =
        ManagerMarkTrue(cs, s.Conditions,
                        KafkaConditionOIDCIdentityCreated, dt)]

MarkOIDCIdentityCreatedSucceededReasonDropped(cs, s, reason, format, args, dt) ==
    [s EXCEPT !.Conditions =
        ManagerMarkTrue(cs, s.Conditions, KafkaConditionOIDCIdentityCreated, dt)]

MarkOIDCIdentityCreatedSucceededWithReason(cs, s, reason, format, args, dt) ==
    [s EXCEPT !.Conditions =
        ManagerMarkTrueWithReason(cs, s.Conditions,
                                  KafkaConditionOIDCIdentityCreated,
                                  reason, format, args, dt)]

MarkOIDCIdentityCreatedFailed(cs, s, reason, format, args, dt) ==
    [s EXCEPT !.Conditions =
        ManagerMarkFalse(cs, s.Conditions, KafkaConditionOIDCIdentityCreated,
                         reason, format, args, dt)]

MarkOIDCIdentityCreatedUnknown(cs, s, reason, format, args, dt) ==
    [s EXCEPT !.Conditions =
        ManagerMarkUnknown(cs, s.Conditions, KafkaConditionOIDCIdentityCreated,
                           reason, format, args, dt)]

UpdateConsumerGroupStatus(s, status) == [s EXCEPT !.Claims = status]

\* ------------------------------------------------------------------------
\* State
\* ------------------------------------------------------------------------

VARIABLES
    KafkaSourceCondSet,   \* the package-level condition set
    status,               \* one KafkaSourceStatus
    nOps,                 \* number of operations applied in this pass
    trueMarked,           \* dependents whose latest mark is one of the five True marks
    sawFalse,             \* the aggregate has been False at some time
    kafkaCondSetLock,     \* the sync.RWMutex: its writer and its readers
    regPc,                \* where RegisterAlternateKafkaConditionSet stands
    regArg,               \* its conditionSet argument
    callPc,               \* where the call on the status stands
    call,                 \* the function called on the status and its input
    loaded,               \* the value the call read from KafkaSourceCondSet
    ret,                  \* what the last call returned
    userFacingResource,   \* the kind Filter and Enqueue are built for
    obj,                  \* the object handed to the functions they return
    filterResult,         \* whether the filter ran, and what it returned
    enqueued,             \* whether the enqueuer ran, and the keys it enqueued
    availArgs,            \* the arguments d and def of DeploymentIsAvailable
    available             \* whether DeploymentIsAvailable ran, and its result

statusVars == <<status, nOps, trueMarked, sawFalse>>

raceVars == <<kafkaCondSetLock, regPc, regArg, callPc, call, loaded, ret>>

routerVars == <<userFacingResource, obj, filterResult, enqueued>>

availVars == <<availArgs, available>>

vars == <<KafkaSourceCondSet, status, nOps, trueMarked, sawFalse,
          kafkaCondSetLock, regPc, regArg, callPc, call, loaded, ret,
          userFacingResource, obj, filterResult, enqueued,
          availArgs, available>>

\* ------------------------------------------------------------------------
\* Inputs
\* ------------------------------------------------------------------------

\* reason, messageFormat and arguments handed to a Mark* operation
MarkInputs ==
    { [reason |-> "DialTimeout", format |-> <<"could not reach broker">>, args |-> <<>>],
      [reason |-> "NotFound", format |-> <<"failed: ", "%s">>, args |-> <<"timeout">>] }

\* duckv1.Addressable values handed to MarkSink
Addressables ==
    { [URL |-> Nil, CACerts |-> "ca0", Audience |-> "aud0"],
      [URL |-> "", CACerts |-> "ca0", Audience |-> "aud0"],
      [URL |-> "http://sink1", CACerts |-> "ca1", Audience |-> "aud1"],
      [URL |-> "http://sink2", CACerts |-> Nil, Audience |-> Nil] }

DeploymentConditions ==
    { [Type |-> DeploymentAvailable, Status |-> "True"],
      [Type |-> DeploymentAvailable, Status |-> "Unknown"],
      [Type |-> "Progressing", Status |-> "True"] }

SeqsUpTo(S, n) == UNION { [1..k -> S] : k \in 0..n }

\* the condition lists of the deployments handed to MarkDeployed: none, one
\* or two conditions, the Available one first, second, twice or missing
DeploymentConditionLists ==
    LET at == [Type |-> DeploymentAvailable, Status |-> "True"]
        au == [Type |-> DeploymentAvailable, Status |-> "Unknown"]
        pt == [Type |-> "Progressing", Status |-> "True"]
    IN { <<>>, <<at>>, <<au>>, <<pt>>,
         <<pt, at>>, <<pt, au>>, <<au, at>>, <<at, au>> }

Deployments ==
    { [Name |-> n.name,
       Status |-> [Conditions |-> c, Replicas |-> n.replicas]] :
         n \in { [name |-> "adapter-a", replicas |-> 1],
                 [name |-> "adapter-b", replicas |-> 2] },
         c \in DeploymentConditionLists }

ClaimsStrings == {"p0:0"}

\* ------------------------------------------------------------------------
\* Operations on one status, each at the current clock
\* ------------------------------------------------------------------------

\* the time between two transitions of a condition
Tick == 1

\* the operation that marks dependent t True
MarkDependentTrue(cs, s, t, dt) ==
    CASE t = KafkaConditionSinkProvided ->
            MarkSink(cs, s, [URL |-> "http://sink1", CACerts |-> "ca1",
                             Audience |-> "aud1"], dt)
      [] t = KafkaConditionDeployed ->
            MarkDeployed(cs, s,
                [Name |-> "adapter-a",
                 Status |-> [Conditions |-> <<[Type |-> DeploymentAvailable,
                                               Status |-> "True"]>>,
                             Replicas |-> 1]], dt)
      [] t = KafkaConditionConnectionEstablished ->
            MarkConnectionEstablished(cs, s, dt)
      [] t = KafkaConditionInitialOffsetsCommitted ->
            MarkInitialOffsetCommitted(cs, s, dt)
      [] t = KafkaConditionOIDCIdentityCreated ->
            MarkOIDCIdentityCreatedSucceeded(cs, s, dt)

\* the order in which a reconciliation pass makes its marks
ReconcileOrder ==
    << KafkaConditionSinkProvided, KafkaConditionDeployed,
       KafkaConditionConnectionEstablished,
       KafkaConditionInitialOffsetsCommitted,
       KafkaConditionOIDCIdentityCreated >>

RECURSIVE MarkAllTrue(_, _, _, _, _)
\* the True marks of the conditions of T, from index i of ReconcileOrder on
MarkAllTrue(cs, s, T, i, dt) ==
    IF i > Len(ReconcileOrder) THEN s
    ELSE MarkAllTrue(cs,
            IF ReconcileOrder[i] \in T
            THEN MarkDependentTrue(cs, s, ReconcileOrder[i], dt) ELSE s,
            T, i + 1, dt)

\* the status an earlier reconciliation pass left: initialized, with the
\* conditions of T marked True
Reconciled(T) ==
    MarkAllTrue(NewLivingConditionSet(DefaultDependents),
                InitializeConditions(NewLivingConditionSet(DefaultDependents),
                                     NewStatus, Tick),
                T, 1, Tick)

\* the filter and the enqueuer have not run; no object has arrived
NoObject == [type |-> "none", Namespace |-> "", OwnerReferences |-> <<>>]

NotRun == [called |-> FALSE]

InitRouterVars ==
    /\ userFacingResource = <<>>
    /\ obj = NoObject
    /\ filterResult = NotRun
    /\ enqueued = NotRun

\* no deployment status is under test
NoArgs == [d |-> [Conditions |-> <<>>, Replicas |-> 0], def |-> FALSE]

\* DeploymentIsAvailable: not called
InitAvailVars ==
    /\ availArgs = NoArgs
    /\ available = NotRun

\* an unlocked sync.RWMutex{}
UnlockedRWMutex == [writer |-> FALSE, readers |-> 0]

NoCall == [f |-> "none"]

\* no registration and no call on the status is under way
InitRaceVars ==
    /\ kafkaCondSetLock = UnlockedRWMutex
    /\ regPc = "idle"
    /\ regArg = NewLivingConditionSet(DefaultDependents)
    /\ callPc = "idle"
    /\ call = NoCall
    /\ loaded = NewLivingConditionSet(DefaultDependents)
    /\ ret = "none"

\* a pass starts from a fresh status or from one an earlier pass left
Init ==
    /\ KafkaSourceCondSet = NewLivingConditionSet(DefaultDependents)
    /\ \/ status = NewStatus /\ trueMarked = {}
       \/ \E T \in SUBSET Range(ReconcileOrder) :
              status = Reconciled(T) /\ trueMarked = T
    /\ nOps = 0
    /\ sawFalse = FALSE
    /\ InitRaceVars
    /\ InitRouterVars
    /\ InitAvailVars

\* what every operation on the status does besides changing it
Applied(s, marked) ==
    /\ nOps < MaxOps
    /\ nOps' = nOps + 1
    /\ trueMarked' = marked
    /\ status' = s
    /\ sawFalse' = (sawFalse \/ s.Conditions[KafkaConditionReady].status = ConditionFalse)
    /\ UNCHANGED KafkaSourceCondSet
    /\ UNCHANGED raceVars
    /\ UNCHANGED routerVars
    /\ UNCHANGED availVars

InitializeConditionsStep ==
    Applied(InitializeConditions(KafkaSourceCondSet, status, Tick), trueMarked)

DoInitializeConditions == InitializeConditionsStep

MarkSinkStep(addr) ==
    Applied(MarkSink(KafkaSourceCondSet, status, addr, Tick),
            IF addr.URL \notin {Nil, ""}
            THEN trueMarked \cup {KafkaConditionSinkProvided}
            ELSE trueMarked \ {KafkaConditionSinkProvided})

DoMarkSink == \E addr \in Addressables : MarkSinkStep(addr)

MarkDeployedStep(d) ==
    Applied(MarkDeployed(KafkaSourceCondSet, status, d, Tick),
            IF \E i \in DOMAIN d.Status.Conditions :
                   /\ d.Status.Conditions[i] =
                          [Type |-> DeploymentAvailable, Status |-> "True"]
                   /\ \A j \in 1..(i-1) :
                          d.Status.Conditions[j].Type # DeploymentAvailable
            THEN trueMarked \cup {KafkaConditionDeployed}
            ELSE trueMarked \ {KafkaConditionDeployed})

DoMarkDeployed == \E d \in Deployments : MarkDeployedStep(d)

UpdateConsumerGroupStatusStep(c) ==
    Applied(UpdateConsumerGroupStatus(status, c), trueMarked)

DoUpdateConsumerGroupStatus ==
    \E c \in ClaimsStrings : UpdateConsumerGroupStatusStep(c)

MarkKeyTypeCorrectStep ==
    Applied(MarkKeyTypeCorrect(KafkaSourceCondSet, status, Tick),
            trueMarked)

DoMarkKeyTypeCorrect == MarkKeyTypeCorrectStep

MarkConnectionEstablishedStep ==
    Applied(MarkConnectionEstablished(KafkaSourceCondSet, status, Tick),
            trueMarked \cup {KafkaConditionConnectionEstablished})

DoMarkConnectionEstablished == MarkConnectionEstablishedStep

MarkInitialOffsetCommittedStep ==
    Applied(MarkInitialOffsetCommitted(KafkaSourceCondSet, status, Tick),
            trueMarked \cup {KafkaConditionInitialOffsetsCommitted})

DoMarkInitialOffsetCommitted == MarkInitialOffsetCommittedStep

MarkOIDCIdentityCreatedSucceededStep ==
    Applied(MarkOIDCIdentityCreatedSucceeded(KafkaSourceCondSet, status, Tick),
            trueMarked \cup {KafkaConditionOIDCIdentityCreated})

DoMarkOIDCIdentityCreatedSucceeded == MarkOIDCIdentityCreatedSucceededStep

MarkNoSinkStep(m) ==
    Applied(MarkNoSink(KafkaSourceCondSet, status, m.reason, m.format,
                m.args, Tick),
            trueMarked \ {KafkaConditionSinkProvided})

DoMarkNoSink == \E m \in MarkInputs : MarkNoSinkStep(m)

MarkDeployingStep(m) ==
    Applied(MarkDeploying(KafkaSourceCondSet, status, m.reason, m.format,
                m.args, Tick),
            trueMarked \ {KafkaConditionDeployed})

DoMarkDeploying == \E m \in MarkInputs : MarkDeployingStep(m)

MarkNotDeployedStep(m) ==
    Applied(MarkNotDeployed(KafkaSourceCondSet, status, m.reason, m.format,
                m.args, Tick),
            trueMarked \ {KafkaConditionDeployed})

DoMarkNotDeployed == \E m \in MarkInputs : MarkNotDeployedStep(m)

MarkKeyTypeIncorrectStep(m) ==
    Applied(MarkKeyTypeIncorrect(KafkaSourceCondSet, status, m.reason, m.format,
                m.args, Tick),
            trueMarked)

DoMarkKeyTypeIncorrect == \E m \in MarkInputs : MarkKeyTypeIncorrectStep(m)

MarkConnectionNotEstablishedStep(m) ==
    Applied(MarkConnectionNotEstablished(KafkaSourceCondSet, status, m.reason, m.format,
                m.args, Tick),
            trueMarked \ {KafkaConditionConnectionEstablished})

DoMarkConnectionNotEstablished == \E m \in MarkInputs : MarkConnectionNotEstablishedStep(m)

MarkInitialOffsetNotCommittedStep(m) ==
    Applied(MarkInitialOffsetNotCommitted(KafkaSourceCondSet, status, m.reason, m.format,
                m.args, Tick),
            trueMarked \ {KafkaConditionInitialOffsetsCommitted})

DoMarkInitialOffsetNotCommitted == \E m \in MarkInputs : MarkInitialOffsetNotCommittedStep(m)

MarkOIDCIdentityCreatedSucceededWithReasonStep(m) ==
    Applied(MarkOIDCIdentityCreatedSucceededWithReason(KafkaSourceCondSet, status, m.reason, m.format,
                m.args, Tick),
            trueMarked)

DoMarkOIDCIdentityCreatedSucceededWithReason == \E m \in MarkInputs : MarkOIDCIdentityCreatedSucceededWithReasonStep(m)

MarkOIDCIdentityCreatedFailedStep(m) ==
    Applied(MarkOIDCIdentityCreatedFailed(KafkaSourceCondSet, status, m.reason, m.format,
                m.args, Tick),
            trueMarked \ {KafkaConditionOIDCIdentityCreated})

DoMarkOIDCIdentityCreatedFailed == \E m \in MarkInputs : MarkOIDCIdentityCreatedFailedStep(m)

MarkOIDCIdentityCreatedUnknownStep(m) ==
    Applied(MarkOIDCIdentityCreatedUnknown(KafkaSourceCondSet, status, m.reason, m.format,
                m.args, Tick),
            trueMarked \ {KafkaConditionOIDCIdentityCreated})

DoMarkOIDCIdentityCreatedUnknown == \E m \in MarkInputs : MarkOIDCIdentityCreatedUnknownStep(m)

Next ==
    \/ DoInitializeConditions
    \/ DoMarkSink
    \/ DoMarkNoSink
    \/ DoMarkDeployed
    \/ DoMarkDeploying
    \/ DoMarkNotDeployed
    \/ DoMarkKeyTypeCorrect
    \/ DoMarkKeyTypeIncorrect
    \/ DoMarkConnectionEstablished
    \/ DoMarkConnectionNotEstablished
    \/ DoMarkInitialOffsetCommitted
    \/ DoMarkInitialOffsetNotCommitted
    \/ DoMarkOIDCIdentityCreatedSucceeded
    \/ DoMarkOIDCIdentityCreatedSucceededWithReason
    \/ DoMarkOIDCIdentityCreatedFailed
    \/ DoMarkOIDCIdentityCreatedUnknown
    \/ DoUpdateConsumerGroupStatus

Spec == Init /\ [][Next]_vars

\* ------------------------------------------------------------------------
\* The package-level condition set under concurrent registration: the
\* registrar and the call on the status run step by step
\* ------------------------------------------------------------------------

\* condition sets handed to RegisterAlternateKafkaConditionSet
AlternateSets ==
    { NewLivingConditionSet(DefaultDependents),
      NewLivingConditionSet(<<KafkaConditionSinkProvided, KafkaConditionDeployed>>) }

\* the calls made on the status while a registration may be under way
RaceCalls ==
    { [f |-> "GetConditionSet"], [f |-> "GetCondition"], [f |-> "IsReady"],
      [f |-> "InitializeConditions"], [f |-> "MarkConnectionEstablished"],
      [f |-> "MarkOIDCIdentityCreatedSucceeded"] }
        \cup { [f |-> "MarkConnectionNotEstablished", m |-> m] : m \in MarkInputs }

Min(a, b) == IF a < b THEN a ELSE b

\* what a read of KafkaSourceCondSet can give while the store of new over old
\* is under way: either value, or the slice of one with the length of the other
RacyReads(old, new) ==
    { old, new,
      [happy |-> old.happy,
       dependents |-> SubSeq(new.dependents, 1,
                             Min(Len(old.dependents), Len(new.dependents)))],
      [happy |-> new.happy,
       dependents |-> SubSeq(old.dependents, 1,
                             Min(Len(old.dependents), Len(new.dependents)))] }

\* the status after call c made with condition set cs
CallStatus(c, cs, s, dt) ==
    CASE c.f = "InitializeConditions" -> InitializeConditions(cs, s, dt)
      [] c.f = "MarkConnectionEstablished" -> MarkConnectionEstablished(cs, s, dt)
      [] c.f = "MarkOIDCIdentityCreatedSucceeded" ->
            MarkOIDCIdentityCreatedSucceeded(cs, s, dt)
      [] c.f = "MarkConnectionNotEstablished" ->
            MarkConnectionNotEstablished(cs, s, c.m.reason, c.m.format,
                                         c.m.args, dt)
      [] OTHER -> s

\* (*KafkaSource).GetConditionSet
GetConditionSet(cs) == cs

\* what call c made with condition set cs returns
CallReturn(c, cs, s) ==
    CASE c.f = "GetConditionSet" -> GetConditionSet(cs)
      [] c.f = "GetCondition" -> GetCondition(cs, s, KafkaConditionReady)
      [] c.f = "IsReady" -> IsReady(cs, s)
      [] OTHER -> "none"

\* kafkaCondSetLock.Lock(): waits for the writer and the readers to be gone
RegisterLock ==
    /\ regPc = "idle"
    /\ ~kafkaCondSetLock.writer
    /\ kafkaCondSetLock.readers = 0
    /\ \E cs \in AlternateSets : regArg' = cs
    /\ kafkaCondSetLock' = [kafkaCondSetLock EXCEPT !.writer = TRUE]
    /\ regPc' = "storing"
    /\ UNCHANGED <<KafkaSourceCondSet, callPc, call, loaded, ret>>
    /\ UNCHANGED statusVars
    /\ UNCHANGED routerVars
    /\ UNCHANGED availVars

\* KafkaSourceCondSet = conditionSet
RegisterStore ==
    /\ regPc = "storing"
    /\ KafkaSourceCondSet' = regArg
    /\ regPc' = "stored"
    /\ UNCHANGED <<kafkaCondSetLock, regArg, callPc, call, loaded, ret>>
    /\ UNCHANGED statusVars
    /\ UNCHANGED routerVars
    /\ UNCHANGED availVars

\* the deferred kafkaCondSetLock.Unlock()
RegisterUnlock ==
    /\ regPc = "stored"
    /\ kafkaCondSetLock' = [kafkaCondSetLock EXCEPT !.writer = FALSE]
    /\ regPc' = "idle"
    /\ UNCHANGED <<KafkaSourceCondSet, regArg, callPc, call, loaded, ret>>
    /\ UNCHANGED statusVars
    /\ UNCHANGED routerVars
    /\ UNCHANGED availVars

\* a function of the status is entered; it takes no lock
CallBegin ==
    /\ callPc = "idle"
    /\ nOps < MaxOps
    /\ \E c \in RaceCalls : call' = c
    /\ callPc' = "loading"
    /\ UNCHANGED <<KafkaSourceCondSet, kafkaCondSetLock, regPc, regArg, loaded, ret>>
    /\ UNCHANGED statusVars
    /\ UNCHANGED routerVars
    /\ UNCHANGED availVars

\* the function reads KafkaSourceCondSet
CallLoad ==
    /\ callPc = "loading"
    /\ IF regPc = "storing"
       THEN loaded' \in RacyReads(KafkaSourceCondSet, regArg)
       ELSE loaded' = KafkaSourceCondSet
    /\ callPc' = "managing"
    /\ UNCHANGED <<KafkaSourceCondSet, kafkaCondSetLock, regPc, regArg, call, ret>>
    /\ UNCHANGED statusVars
    /\ UNCHANGED routerVars
    /\ UNCHANGED availVars

\* Manage(s) of the value read, and the manager's operation
CallFinish ==
    /\ callPc = "managing"
    /\ status' = CallStatus(call, loaded, status, Tick)
    /\ ret' = CallReturn(call, loaded, status)
    /\ nOps' = nOps + 1
    /\ callPc' = "idle"
    /\ call' = NoCall
    /\ UNCHANGED <<KafkaSourceCondSet, kafkaCondSetLock, regPc, regArg, loaded>>
    /\ UNCHANGED <<trueMarked, sawFalse>>
    /\ UNCHANGED routerVars
    /\ UNCHANGED availVars

InitRace ==
    /\ KafkaSourceCondSet = NewLivingConditionSet(DefaultDependents)
    /\ status \in {NewStatus, Reconciled(Range(ReconcileOrder))}
    /\ trueMarked = {}
    /\ nOps = 0
    /\ sawFalse = FALSE
    /\ InitRaceVars
    /\ InitRouterVars
    /\ InitAvailVars

NextRace ==
    \/ RegisterLock
    \/ RegisterStore
    \/ RegisterUnlock
    \/ CallBegin
    \/ CallLoad
    \/ CallFinish

SpecRace == InitRace /\ [][NextRace]_vars

\* ------------------------------------------------------------------------
\* consumergroup: Filter and Enqueue.  A string is the sequence of its letters.
\* ------------------------------------------------------------------------

UpperLetters ==
    << "A", "B", "C", "D", "E", "F", "G", "H", "I", "J", "K", "L", "M",
       "N", "O", "P", "Q", "R", "S", "T", "U", "V", "W", "X", "Y", "Z" >>

LowerLetters ==
    << "a", "b", "c", "d", "e", "f", "g", "h", "i", "j", "k", "l", "m",
       "n", "o", "p", "q", "r", "s", "t", "u", "v", "w", "x", "y", "z" >>

\* unicode.ToLower on the letters of a Kind
ToLowerLetter(c) ==
    IF \E i \in DOMAIN UpperLetters : UpperLetters[i] = c
    THEN LowerLetters[CHOOSE i \in DOMAIN UpperLetters : UpperLetters[i] = c]
    ELSE c

\* strings.ToLower
ToLower(str) == [i \in DOMAIN str |-> ToLowerLetter(str[i])]

\* a type assertion that every object passes
IsConsumerGroupAnyObject(o) == o.type = o.type

\* the obj.(*kafkainternals.ConsumerGroup) type assertion
IsConsumerGroup(o) == o.type = "ConsumerGroup"

RECURSIVE AnyOwnerOfKind(_, _)
\* the loop of the filter over the owner references
AnyOwnerOfKind(refs, kind) ==
    IF refs = <<>> THEN FALSE
    ELSE IF ToLower(Head(refs).Kind) = kind THEN TRUE
    ELSE AnyOwnerOfKind(Tail(refs), kind)

RECURSIVE AnyOwnerOfKindAsWritten(_, _)
\* the loop of the filter comparing the reference's Kind as it is written
AnyOwnerOfKindAsWritten(refs, kind) ==
    IF refs = <<>> THEN FALSE
    ELSE IF Head(refs).Kind = kind THEN TRUE
    ELSE AnyOwnerOfKindAsWritten(Tail(refs), kind)

\* Filter(resource)(o) comparing the reference's Kind as it is written
FilterKindAsWritten(resource, o) ==
    IF ~IsConsumerGroup(o) THEN FALSE
    ELSE AnyOwnerOfKindAsWritten(o.OwnerReferences, ToLower(resource))

\* Filter(resource)(o) looking at the first owner reference only
FilterFirstOwnerOnly(resource, o) ==
    IF ~IsConsumerGroup(o) THEN FALSE
    ELSE IF o.OwnerReferences = <<>> THEN FALSE
    ELSE ToLower(Head(o.OwnerReferences).Kind) = ToLower(resource)

\* Filter(resource)(o)
Filter(resource, o) ==
    IF ~IsConsumerGroup(o) THEN FALSE
    ELSE AnyOwnerOfKind(o.OwnerReferences, ToLower(resource))

RECURSIVE OwnersOfKind(_, _, _)
\* the loop of the enqueuer: the keys handed to enqueue, in order
OwnersOfKind(refs, kind, namespace) ==
    IF refs = <<>> THEN <<>>
    ELSE (IF ToLower(Head(refs).Kind) = kind
          THEN << [Namespace |-> namespace, Name |-> Head(refs).Name] >>
          ELSE <<>>)
             \o OwnersOfKind(Tail(refs), kind, namespace)

\* Enqueue(resource, enqueue)(o) leaving its loop after the first match
EnqueueFirstMatchOnly(resource, o) ==
    IF ~IsConsumerGroup(o) THEN <<>>
    ELSE LET keys == OwnersOfKind(o.OwnerReferences, ToLower(resource), o.Namespace)
         IN IF keys = <<>> THEN <<>> ELSE << Head(keys) >>

\* Enqueue(resource, enqueue)(o): the calls of enqueue it makes
Enqueue(resource, o) ==
    IF ~IsConsumerGroup(o) THEN <<>>
    ELSE OwnersOfKind(o.OwnerReferences, ToLower(resource), o.Namespace)

\* kinds of owners, written in several cases
Kinds ==
    { <<"K", "s">>, <<"k", "s">>, <<"K", "S">>, <<"k", "S">>,
      <<"s", "k">>, <<"K">>, <<>> }

OwnerReferenceValues == [Kind : Kinds, Name : {"a", "b"}]

\* the objects of an informer's stream: ConsumerGroups and other objects
Objects ==
    [type : {"ConsumerGroup"}, Namespace : {"ns1", "ns2"},
     OwnerReferences : SeqsUpTo(OwnerReferenceValues, MaxOwners)]
    \cup
    [type : {"Deployment"}, Namespace : {"ns1"},
     OwnerReferences : SeqsUpTo(OwnerReferenceValues, 1)]

\* an event for object o reaches a handler built for kind
InitRouter ==
    /\ KafkaSourceCondSet = NewLivingConditionSet(DefaultDependents)
    /\ status = NewStatus
    /\ trueMarked = {}
    /\ nOps = 0
    /\ sawFalse = FALSE
    /\ InitRaceVars
    /\ userFacingResource \in Kinds
    /\ obj \in Objects
    /\ filterResult = NotRun
    /\ enqueued = NotRun
    /\ InitAvailVars

\* the FilterFunc of the handler runs
DoFilter ==
    /\ ~filterResult.called
    /\ filterResult' = [called |-> TRUE, value |-> Filter(userFacingResource, obj)]
    /\ UNCHANGED <<userFacingResource, obj, enqueued>>
    /\ UNCHANGED <<KafkaSourceCondSet, statusVars, raceVars, availVars>>

\* the handler's enqueuer runs
DoEnqueue ==
    /\ ~enqueued.called
    /\ enqueued' = [called |-> TRUE, keys |-> Enqueue(userFacingResource, obj)]
    /\ UNCHANGED <<userFacingResource, obj, filterResult>>
    /\ UNCHANGED <<KafkaSourceCondSet, statusVars, raceVars, availVars>>

NextRouter == DoFilter \/ DoEnqueue

SpecRouter == InitRouter /\ [][NextRouter]_vars

\* ------------------------------------------------------------------------
\* DeploymentIsAvailable on the statuses a deployment can show
\* ------------------------------------------------------------------------

\* the conditions of a deployment status, Available ones in every status
StatusConditions ==
    DeploymentConditions
        \cup { [Type |-> DeploymentAvailable, Status |-> "False"],
               [Type |-> "Progressing", Status |-> "False"] }

DeploymentStatuses ==
    { [Conditions |-> c, Replicas |-> 1] :
          c \in SeqsUpTo(StatusConditions, MaxDeployConds) }

\* a caller is about to ask for the availability of d with default def
InitAvailable ==
    /\ KafkaSourceCondSet = NewLivingConditionSet(DefaultDependents)
    /\ status = NewStatus
    /\ trueMarked = {}
    /\ nOps = 0
    /\ sawFalse = FALSE
    /\ InitRaceVars
    /\ InitRouterVars
    /\ availArgs \in [d : DeploymentStatuses, def : BOOLEAN]
    /\ available = NotRun

\* DeploymentIsAvailable(d, def) runs and returns
CallDeploymentIsAvailable ==
    /\ ~available.called
    /\ available' = [called |-> TRUE,
                     value |-> DeploymentIsAvailable(availArgs.d, availArgs.def)]
    /\ UNCHANGED availArgs
    /\ UNCHANGED <<KafkaSourceCondSet, statusVars, raceVars, routerVars>>

NextAvailable == CallDeploymentIsAvailable

SpecAvailable == InitAvailable /\ [][NextAvailable]_vars

\* ------------------------------------------------------------------------
\* Properties of the condition aggregation
\* ------------------------------------------------------------------------

\* the five dependents, in the order of their declaration
FiveDependents ==
    << "SinkProvided", "Deployed", "ConnectionEstablished",
       "InitialOffsetsCommitted", "OIDCIdentityCreated" >>

Five == Range(FiveDependents)

Cond(t) == status.Conditions[t]

Ready == Cond("Ready")

\* some Mark* or InitializeConditions has written a condition
Marked == \E t \in ConditionTypes : Cond(t).status # ConditionAbsent

\* C1: the aggregate Ready is True if and only if all five dependents are
\* True, and IsReady() is true in exactly those states.
C1_ReadyIffAllTrue ==
    /\ Ready.status = "True" <=> \A d \in Five : Cond(d).status = "True"
    /\ IsReady(KafkaSourceCondSet, status) <=> \A d \in Five : Cond(d).status = "True"

C1_Witness ==
    /\ nOps > 0
    /\ \A d \in Five : Cond(d).status = "True"
    /\ Ready.status = "True"
    /\ IsReady(KafkaSourceCondSet, status)

\* C2: once a mark has been made, a dependent that is Unknown or absent makes
\* the aggregate Unknown, also when other dependents are False.
C2_UnknownWins ==
    (Marked /\ \E d \in Five : Cond(d).status \in {"Unknown", "Absent"})
        => Ready.status = "Unknown"

C2_Witness ==
    /\ nOps > 0
    /\ \E d \in Five : Cond(d).status = "Unknown"
    /\ \E d \in Five : Cond(d).status = "False"
    /\ Ready.status = "Unknown"

\* C3: with no dependent Unknown or absent and at least one dependent False,
\* the aggregate is False.
C3_FalseWhenNoUnknown ==
    ( /\ \A d \in Five : Cond(d).status \notin {"Unknown", "Absent"}
      /\ \E d \in Five : Cond(d).status = "False" )
        => Ready.status = "False"

C3_Witness ==
    /\ nOps > 0
    /\ \A d \in Five : Cond(d).status \in {"True", "False"}
    /\ \E d \in Five : Cond(d).status = "False"
    /\ \E d \in Five : Cond(d).status = "True"
    /\ Ready.status = "False"

\* index in FiveDependents of the first dependent whose status is in S, or 0
FirstOfFive(S) ==
    LET hits == { i \in 1..5 : Cond(FiveDependents[i]).status \in S }
    IN IF hits = {} THEN 0 ELSE CHOOSE i \in hits : \A j \in hits : i <= j

\* C4 as claimed: a non-True aggregate carries the reason and message of the
\* first dependent, in declaration order, whose status equals its own.
C4_Original ==
    Ready.status \in {"Unknown", "False"} =>
        LET i == FirstOfFive({Ready.status})
        IN /\ i # 0
           /\ Ready.reason = Cond(FiveDependents[i]).reason
           /\ Ready.message = Cond(FiveDependents[i]).message

\* C4: a non-True aggregate carries the reason and message of the first
\* dependent, in declaration order, that is absent or whose status equals its
\* own; an absent dependent counts as Unknown with empty reason and message.
C4_FirstInDeclarationOrder ==
    Ready.status \in {"Unknown", "False"} =>
        LET i == FirstOfFive(IF Ready.status = "Unknown"
                             THEN {"Unknown", "Absent"} ELSE {"False"})
        IN /\ i # 0
           /\ Ready.reason =
                 (IF Cond(FiveDependents[i]).status = "Absent" THEN ""
                  ELSE Cond(FiveDependents[i]).reason)
           /\ Ready.message =
                 (IF Cond(FiveDependents[i]).status = "Absent" THEN <<>>
                  ELSE Cond(FiveDependents[i]).message)

\* two dependents are False with different reasons and the aggregate shows
\* the reason of the one declared first
C4_Witness ==
    /\ nOps > 0
    /\ Ready.status = "False"
    /\ \E i, j \in 1..5 :
          /\ i < j
          /\ Cond(FiveDependents[i]).status = "False"
          /\ Cond(FiveDependents[j]).status = "False"
          /\ Cond(FiveDependents[i]).reason # Cond(FiveDependents[j]).reason
          /\ \A k \in 1..(i-1) : Cond(FiveDependents[k]).status = "True"
          /\ Ready.reason = Cond(FiveDependents[i]).reason
          /\ Ready.message = Cond(FiveDependents[i]).message

\* C5: once each of the five True marks is the latest mark of its dependent,
\* the aggregate is True and IsReady() is true, whatever the status was before.
C5_FiveMarksMakeReady ==
    trueMarked = Five =>
        /\ Ready.status = "True"
        /\ IsReady(KafkaSourceCondSet, status)

\* the five marks brought the status to ready after the aggregate was False
C5_Witness ==
    /\ nOps > 0
    /\ sawFalse
    /\ trueMarked = Five
    /\ IsReady(KafkaSourceCondSet, status)

\* every dependent other than d is True
OthersTrue(d) == \A e \in Five \ {d} : Cond(e).status = "True"

\* after the step d and the aggregate are False, the aggregate with reason
FalseMarkOutcome(d, reason) ==
    /\ status'.Conditions[d].status = "False"
    /\ status'.Conditions["Ready"].status = "False"
    /\ status'.Conditions["Ready"].reason = reason
    /\ ~IsReady(KafkaSourceCondSet', status')

\* C6: with the other dependents True, marking a dependent False with reason
\* r makes the aggregate False with reason r and IsReady() false.
C6_FalseMarkSurfaces ==
    [][ \A m \in MarkInputs :
            /\ (OthersTrue("SinkProvided") /\ MarkNoSinkStep(m)) =>
                  FalseMarkOutcome("SinkProvided", m.reason)
            /\ (OthersTrue("Deployed") /\ MarkNotDeployedStep(m)) =>
                  FalseMarkOutcome("Deployed", m.reason)
            /\ (OthersTrue("ConnectionEstablished")
                    /\ MarkConnectionNotEstablishedStep(m)) =>
                  FalseMarkOutcome("ConnectionEstablished", m.reason)
            /\ (OthersTrue("InitialOffsetsCommitted")
                    /\ MarkInitialOffsetNotCommittedStep(m)) =>
                  FalseMarkOutcome("InitialOffsetsCommitted", m.reason)
            /\ (OthersTrue("OIDCIdentityCreated")
                    /\ MarkOIDCIdentityCreatedFailedStep(m)) =>
                  FalseMarkOutcome("OIDCIdentityCreated", m.reason)
      ]_vars

C6_Witness ==
    /\ nOps > 0
    /\ OthersTrue("ConnectionEstablished")
    /\ Cond("ConnectionEstablished").status = "False"
    /\ Cond("ConnectionEstablished").reason = "DialTimeout"
    /\ Ready.status = "False"
    /\ Ready.reason = "DialTimeout"
    /\ Ready.message = <<"could not reach broker">>
    /\ ~IsReady(KafkaSourceCondSet, status)

\* C7: InitializeConditions leaves every condition that is present as it is,
\* and a second call right after the first changes nothing.
C7_InitializeIdempotent ==
    [][ InitializeConditionsStep =>
            /\ \A t \in ConditionTypes :
                   Cond(t).status # ConditionAbsent =>
                       status'.Conditions[t] = Cond(t)
            /\ InitializeConditions(KafkaSourceCondSet', status', Tick) = status'
      ]_vars

\* InitializeConditions ran on a status with a dependent that had been marked
\* while it was absent, and filled in the others
C7_Witness ==
    /\ nOps = 2
    /\ \E d \in Five : /\ Cond(d).status \in {"True", "False"}
                       /\ Cond(d).lastTransitionTime = 1
    /\ \E d \in Five : Cond(d) = [status |-> "Unknown", severity |-> "Error",
                                   reason |-> "", message |-> <<>>,
                                   lastTransitionTime |-> 1]
    /\ \A d \in Five : Cond(d).status # ConditionAbsent

\* C8: MarkSink with a nil or empty URL sets SinkProvided to Unknown with
\* reason "SinkEmpty", never to False; it sets True only for a non-empty URL.
C8_EmptySinkIsUnknown ==
    [][ \A addr \in Addressables :
            MarkSinkStep(addr) =>
                IF addr.URL = Nil \/ addr.URL = ""
                THEN /\ status'.Conditions["SinkProvided"].status = "Unknown"
                     /\ status'.Conditions["SinkProvided"].reason = "SinkEmpty"
                ELSE status'.Conditions["SinkProvided"].status = "True"
      ]_vars

\* an empty sink was marked on a status whose SinkProvided was True or False
C8_Witness ==
    /\ nOps > 0
    /\ Cond("SinkProvided").status = "Unknown"
    /\ Cond("SinkProvided").reason = "SinkEmpty"
    /\ Cond("SinkProvided").message = <<"Sink has resolved to empty.">>
    /\ Cond("SinkProvided").lastTransitionTime >= 3

\* ------------------------------------------------------------------------
\* Properties of the lock around KafkaSourceCondSet
\* ------------------------------------------------------------------------

\* C9: the functions that read KafkaSourceCondSet read it under the read
\* lock, so that no read of it is under way while the registrar, holding the
\* write lock, stores into it.
C9_NoReadDuringStore ==
    ~(callPc = "loading" /\ regPc = "storing" /\ kafkaCondSetLock.writer)

\* ------------------------------------------------------------------------
\* Properties of Filter and Enqueue
\* ------------------------------------------------------------------------

\* two letters that are the same up to their case
SameLetter(a, b) ==
    \/ a = b
    \/ \E i \in 1..26 : {a, b} = {UpperLetters[i], LowerLetters[i]}

\* two strings that are equal when the case of their letters is ignored
EqualIgnoringCase(x, y) ==
    /\ Len(x) = Len(y)
    /\ \A i \in 1..Len(x) : SameLetter(x[i], y[i])

\* C10: the filter returns true exactly for a ConsumerGroup one of whose
\* owner references has a Kind equal to the owner kind up to letter case.
C10_FilterMatchesIgnoringCase ==
    filterResult.called =>
        ( filterResult.value <=>
            /\ obj.type = "ConsumerGroup"
            /\ \E i \in 1..Len(obj.OwnerReferences) :
                  EqualIgnoringCase(obj.OwnerReferences[i].Kind,
                                    userFacingResource) )

\* the filter accepted a ConsumerGroup whose only matching owner reference
\* is written in another case than the owner kind
C10_Witness ==
    /\ filterResult.called
    /\ filterResult.value
    /\ Len(userFacingResource) = 2
    /\ ToLower(userFacingResource) # userFacingResource
    /\ \A i \in 1..Len(obj.OwnerReferences) :
          obj.OwnerReferences[i].Kind # userFacingResource
    /\ \E i \in 1..Len(obj.OwnerReferences) :
          /\ EqualIgnoringCase(obj.OwnerReferences[i].Kind, userFacingResource)
          /\ ToLower(obj.OwnerReferences[i].Kind) # obj.OwnerReferences[i].Kind

\* the owner references of obj whose Kind is the owner kind up to letter case
MatchingOwners ==
    SelectSeq(obj.OwnerReferences,
              LAMBDA r : EqualIgnoringCase(r.Kind, userFacingResource))

\* C11: the enqueuer calls enqueue once for each owner reference whose Kind
\* matches the owner kind up to letter case, in the order of the references,
\* with the object's namespace and the reference's name; it goes on after the
\* first match and makes no call when no reference matches.
C11_EnqueueEveryMatchInOrder ==
    (enqueued.called /\ obj.type = "ConsumerGroup") =>
        /\ Len(enqueued.keys) = Len(MatchingOwners)
        /\ \A i \in 1..Len(MatchingOwners) :
              enqueued.keys[i] = [Namespace |-> obj.Namespace,
                                  Name |-> MatchingOwners[i].Name]

\* two owner references of the owner kind, named "b" then "a" and written in
\* different cases, gave the two keys in that order
C11_Witness ==
    /\ enqueued.called
    /\ obj.type = "ConsumerGroup"
    /\ Len(obj.OwnerReferences) = 2
    /\ obj.OwnerReferences[1].Name = "b"
    /\ obj.OwnerReferences[2].Name = "a"
    /\ obj.OwnerReferences[1].Kind # obj.OwnerReferences[2].Kind
    /\ Len(userFacingResource) = 2
    /\ enqueued.keys = << [Namespace |-> obj.Namespace, Name |-> "b"],
                          [Namespace |-> obj.Namespace, Name |-> "a"] >>

\* C12: for an object that is not a ConsumerGroup the filter returns false
\* and the enqueuer returns without a call of enqueue.
C12_OtherObjectsMatchNothing ==
    obj.type # "ConsumerGroup" =>
        /\ filterResult.called => filterResult.value = FALSE
        /\ enqueued.called => enqueued.keys = <<>>

\* both handlers ran on a Deployment that has an owner reference of the
\* owner kind
C12_Witness ==
    /\ obj.type = "Deployment"
    /\ Len(obj.OwnerReferences) = 1
    /\ Len(userFacingResource) = 2
    /\ EqualIgnoringCase(obj.OwnerReferences[1].Kind, userFacingResource)
    /\ filterResult.called
    /\ filterResult.value = FALSE
    /\ enqueued.called
    /\ enqueued.keys = <<>>

\* C19: on the same owner kind and object, the filter returns true exactly
\* when the enqueuer makes at least one call of enqueue.
C19_FilterAgreesWithEnqueue ==
    (filterResult.called /\ enqueued.called) =>
        (filterResult.value <=> Len(enqueued.keys) > 0)

\* the filter accepted a ConsumerGroup whose first owner reference is of
\* another kind, and the enqueuer made a call for its second one
C19_Witness ==
    /\ filterResult.called
    /\ enqueued.called
    /\ obj.type = "ConsumerGroup"
    /\ Len(obj.OwnerReferences) = 2
    /\ ~EqualIgnoringCase(obj.OwnerReferences[1].Kind, userFacingResource)
    /\ filterResult.value
    /\ enqueued.keys = << [Namespace |-> obj.Namespace,
                           Name |-> obj.OwnerReferences[2].Name] >>

\* ------------------------------------------------------------------------
\* Properties of the single marks
\* ------------------------------------------------------------------------

\* the step of a KeyTypeCorrect mark
KeyTypeStep ==
    \/ MarkKeyTypeCorrectStep
    \/ \E m \in MarkInputs : MarkKeyTypeIncorrectStep(m)

\* the step leaves everything of the status but the KeyTypeCorrect condition
OnlyKeyTypeChanges ==
    /\ \A t \in ConditionTypes \ {"KeyTypeCorrect"} :
           status'.Conditions[t] = Cond(t)
    /\ [status' EXCEPT !.Conditions = status.Conditions] = status

\* C13 as claimed: in every state the KeyTypeCorrect marks leave the
\* aggregate and the five dependents unchanged.
C13_Original ==
    [][ KeyTypeStep => OnlyKeyTypeChanges ]_vars

\* C13: the KeyTypeCorrect marks never change a dependent nor the result of
\* IsReady(), and where the aggregate is present (the status has been
\* initialized or marked before) they change nothing but the KeyTypeCorrect
\* condition.
C13_KeyTypeIsNoDependent ==
    [][ KeyTypeStep =>
          /\ \A d \in Five : status'.Conditions[d] = Cond(d)
          /\ IsReady(KafkaSourceCondSet', status') = IsReady(KafkaSourceCondSet, status)
          /\ Ready.status # ConditionAbsent => OnlyKeyTypeChanges
      ]_vars

\* KeyTypeCorrect was marked False on a ready status, which stays ready
C13_Witness ==
    /\ nOps > 0
    /\ Cond("KeyTypeCorrect").status = "False"
    /\ Cond("KeyTypeCorrect").reason = "NotFound"
    /\ \A d \in Five : Cond(d).status = "True"
    /\ Ready.status = "True"
    /\ IsReady(KafkaSourceCondSet, status)

\* the deployment has an Available condition and its status is "True"; should
\* the list hold several conditions of that type, the first is the one
HasAvailableTrue(d) ==
    \E i \in 1..Len(d.Status.Conditions) :
        /\ d.Status.Conditions[i].Type = "Available"
        /\ d.Status.Conditions[i].Status = "True"
        /\ \A j \in 1..(i - 1) : d.Status.Conditions[j].Type # "Available"

\* in this step the lastTransitionTime of condition t moves if and only if
\* the status of t was not st before, and t has status st after
MarkMovesTime(t, st) ==
    /\ status'.Conditions[t].status = st
    /\ (status'.Conditions[t].lastTransitionTime # Cond(t).lastTransitionTime)
           <=> (Cond(t).status # st)

\* C14: in every operation, the lastTransitionTime of a condition changes if
\* and only if the operation changes the status of that condition; each mark
\* moves the time of its condition exactly when the condition did not have
\* the status the mark gives it, whatever reason and message it carries.
\* ("the step implies the outcome" is written outcome \/ ~step.)
C14_TransitionTimeFollowsStatus ==
    [][ /\ \A t \in ConditionTypes :
              (status'.Conditions[t].lastTransitionTime # Cond(t).lastTransitionTime)
                  <=> (status'.Conditions[t].status # Cond(t).status)
        /\ \A addr \in Addressables :
              MarkMovesTime("SinkProvided",
                      IF addr.URL \in {Nil, ""} THEN "Unknown" ELSE "True")
                \/ ~MarkSinkStep(addr)
        /\ \A d \in Deployments :
              MarkMovesTime("Deployed",
                      IF HasAvailableTrue(d) THEN "True" ELSE "False")
                \/ ~MarkDeployedStep(d)
        /\ MarkMovesTime("KeyTypeCorrect", "True")
                \/ ~MarkKeyTypeCorrectStep
        /\ MarkMovesTime("ConnectionEstablished", "True")
                \/ ~MarkConnectionEstablishedStep
        /\ MarkMovesTime("InitialOffsetsCommitted", "True")
                \/ ~MarkInitialOffsetCommittedStep
        /\ MarkMovesTime("OIDCIdentityCreated", "True")
                \/ ~MarkOIDCIdentityCreatedSucceededStep
        /\ \A m \in MarkInputs :
              /\ MarkMovesTime("SinkProvided", "False")
                \/ ~MarkNoSinkStep(m)
              /\ MarkMovesTime("Deployed", "Unknown")
                \/ ~MarkDeployingStep(m)
              /\ MarkMovesTime("Deployed", "False")
                \/ ~MarkNotDeployedStep(m)
              /\ MarkMovesTime("KeyTypeCorrect", "False")
                \/ ~MarkKeyTypeIncorrectStep(m)
              /\ MarkMovesTime("ConnectionEstablished", "False")
                \/ ~MarkConnectionNotEstablishedStep(m)
              /\ MarkMovesTime("InitialOffsetsCommitted", "False")
                \/ ~MarkInitialOffsetNotCommittedStep(m)
              /\ MarkMovesTime("OIDCIdentityCreated", "True")
                \/ ~MarkOIDCIdentityCreatedSucceededWithReasonStep(m)
              /\ MarkMovesTime("OIDCIdentityCreated", "False")
                \/ ~MarkOIDCIdentityCreatedFailedStep(m)
              /\ MarkMovesTime("OIDCIdentityCreated", "Unknown")
                \/ ~MarkOIDCIdentityCreatedUnknownStep(m)
      ]_vars

\* on a fresh status ConnectionEstablished was marked False twice, the second
\* time with reason "NotFound": its one transition is the first mark's
C14_Witness ==
    /\ nOps = 2
    /\ status.Claims = NewStatus.Claims
    /\ \A t \in ConditionTypes \ {"ConnectionEstablished", "Ready"} :
           Cond(t).status = ConditionAbsent
    /\ Cond("ConnectionEstablished").status = "False"
    /\ Cond("ConnectionEstablished").reason = "NotFound"
    /\ Cond("ConnectionEstablished").lastTransitionTime = Tick

\* C15: MarkDeployed sets Deployed to True exactly for a deployment whose
\* Available condition has status "True"; for every other deployment, one
\* with no Available condition included, it sets Deployed to False with
\* reason "DeploymentUnavailable" and a message with the deployment's name,
\* and in no case to Unknown.
C15_DeployedFollowsAvailable ==
    [][ \A d \in Deployments :
            MarkDeployedStep(d) =>
                LET after == status'.Conditions["Deployed"]
                IN /\ after.status = "True" <=> HasAvailableTrue(d)
                   /\ after.status # "Unknown"
                   /\ ~HasAvailableTrue(d) =>
                         /\ after.status = "False"
                         /\ after.reason = "DeploymentUnavailable"
                         /\ after.message =
                               <<"The Deployment '", d.Name, "' is unavailable.">>
      ]_vars

\* a Deployed condition that had been True was marked False for the
\* deployment "adapter-b"
C15_Witness ==
    /\ nOps > 0
    /\ Cond("Deployed").status = "False"
    /\ Cond("Deployed").reason = "DeploymentUnavailable"
    /\ Cond("Deployed").message = <<"The Deployment '", "adapter-b", "' is unavailable.">>
    /\ Cond("Deployed").lastTransitionTime >= 3

\* C16: Consumers changes only in a MarkDeployed with an available
\* deployment, which sets it to the deployment's replica count; every other
\* operation, MarkDeployed with an unavailable deployment included, leaves it.
C16_ConsumersOnlyFromAvailable ==
    [][ /\ status'.Consumers # status.Consumers =>
              \E d \in Deployments :
                  /\ HasAvailableTrue(d)
                  /\ status'.Consumers = d.Status.Replicas
                  /\ MarkDeployedStep(d)
        /\ \A d \in Deployments :
              (HasAvailableTrue(d) /\ MarkDeployedStep(d)) =>
                  status'.Consumers = d.Status.Replicas
      ]_vars

\* the status keeps the two consumers of the available deployment "adapter-b"
\* after a later mark has made Deployed False or Unknown
C16_Witness ==
    /\ nOps = 2
    /\ status.Consumers = 2
    /\ Cond("Deployed").status \in {"False", "Unknown"}
    /\ Cond("Deployed").reason # ""

\* the message a mark input formats to
FormattedMessage(m) ==
    IF m.reason = "DialTimeout" THEN <<"could not reach broker">>
    ELSE <<"failed: ", "timeout">>

\* C17: MarkOIDCIdentityCreatedSucceededWithReason sets OIDCIdentityCreated
\* to True and keeps the given reason and message on it; with the other four
\* dependents True the aggregate is then True and IsReady() is true.
C17_TrueWithReasonCountsAsTrue ==
    [][ \A m \in MarkInputs :
            MarkOIDCIdentityCreatedSucceededWithReasonStep(m) =>
                /\ status'.Conditions["OIDCIdentityCreated"].status = "True"
                /\ status'.Conditions["OIDCIdentityCreated"].reason = m.reason
                /\ status'.Conditions["OIDCIdentityCreated"].message =
                      FormattedMessage(m)
                /\ OthersTrue("OIDCIdentityCreated") =>
                      /\ status'.Conditions["Ready"].status = "True"
                      /\ IsReady(KafkaSourceCondSet', status')
      ]_vars

\* the status is ready while OIDCIdentityCreated is True with the reason and
\* message of the mark
C17_Witness ==
    /\ nOps > 0
    /\ Cond("OIDCIdentityCreated").status = "True"
    /\ Cond("OIDCIdentityCreated").reason = "NotFound"
    /\ Cond("OIDCIdentityCreated").message = <<"failed: ", "timeout">>
    /\ OthersTrue("OIDCIdentityCreated")
    /\ Ready.status = "True"
    /\ IsReady(KafkaSourceCondSet, status)

\* the sink address held by a status
SinkAddress(s) == << s.SinkURI, s.SinkCACerts, s.SinkAudience >>

\* C20: MarkSink with a nil or empty URL and MarkNoSink leave SinkURI,
\* SinkCACerts and SinkAudience as they are; the three fields change only in
\* a MarkSink with a non-empty URL, which sets them from its address.
C20_SinkAddressOnlyFromMarkSink ==
    [][ /\ SinkAddress(status') # SinkAddress(status) =>
              \E addr \in Addressables :
                  /\ addr.URL \notin {Nil, ""}
                  /\ SinkAddress(status') = << addr.URL, addr.CACerts, addr.Audience >>
                  /\ MarkSinkStep(addr)
        /\ \A addr \in Addressables :
              (addr.URL \in {Nil, ""} /\ MarkSinkStep(addr)) =>
                  SinkAddress(status') = SinkAddress(status)
        /\ \A m \in MarkInputs :
              MarkNoSinkStep(m) => SinkAddress(status') = SinkAddress(status)
      ]_vars

\* after MarkSink with the address "http://sink2" and then MarkSink with an
\* empty URL, the status holds that address while SinkProvided is Unknown
C20_Witness ==
    /\ nOps = 2
    /\ SinkAddress(status) = << "http://sink2", Nil, Nil >>
    /\ Cond("SinkProvided").status = "Unknown"
    /\ Cond("SinkProvided").reason = "SinkEmpty"

\* ------------------------------------------------------------------------
\* Properties of DeploymentIsAvailable
\* ------------------------------------------------------------------------

\* the positions of the Available conditions in the status under test
AvailablePositions ==
    { i \in 1..Len(availArgs.d.Conditions) :
          availArgs.d.Conditions[i].Type = "Available" }

\* C18: DeploymentIsAvailable returns whether the status of the first
\* Available condition is "True", whatever the later ones and the default
\* are, and returns the default when there is no Available condition, the
\* only case in which the default decides.
C18_FirstAvailableDecides ==
    available.called =>
        IF AvailablePositions = {}
        THEN available.value = availArgs.def
        ELSE LET first == CHOOSE i \in AvailablePositions :
                              \A j \in AvailablePositions : i <= j
             IN available.value = (availArgs.d.Conditions[first].Status = "True")

\* with two Available conditions, the first not "True" and the second
\* "True", and the default true, the function returned false
C18_Witness ==
    /\ available.called
    /\ Len(availArgs.d.Conditions) = 2
    /\ availArgs.d.Conditions[1].Type = "Available"
    /\ availArgs.d.Conditions[1].Status # "True"
    /\ availArgs.d.Conditions[2] = [Type |-> "Available", Status |-> "True"]
    /\ availArgs.def = TRUE
    /\ available.value = FALSE

====
